---- MODULE Spec2Model ----
(***************************************************************************)
(* State-machine model of the VoicePipeline class                          *)
(* (src/src/lib/voice-pipeline.ts, lines 1-295) together with the browser  *)
(* objects it drives: the microphone promise, the two AudioContexts, the   *)
(* WebSockets it creates, their timers and the AudioBufferSourceNodes it   *)
(* starts.  Every handler of the class is one action; the observer's       *)
(* callbacks (src/src/pages/Index.tsx) are recorded in state and interimText and,   *)
(* for the last step only, in emitted.                                     *)
(***************************************************************************)
EXTENDS Integers, Sequences, FiniteSets, TLC

\* ---------------------------------------------------------------- constants
MAX_RECONNECTS == 3
BUFFER_SIZE == 3200

\* ------------------------------------------------------------------- bounds
\* Spec: one pipeline instance started once, as Index.tsx uses it
\* sockets ever created by the instance
MaxSockets == 4
\* inbound audio messages
MaxAudio == 3
\* SpecRestart: one instance whose owner may call start() again after stop()
\* start() calls that pass the isRunning guard (microphone acquisitions)
RestartStarts == 2
\* sockets ever created by the instance
RestartSockets == 2
\* inbound audio messages
RestartAudio == 1
\* SpecText: one instance started once whose remote also sends transcripts
\* sockets ever created by the instance
TextSockets == 2
\* inbound audio messages
TextAudio == 1
\* transcript entries the observer receives
TextTranscripts == 2
\* SpecCapture: one instance started once whose capture blocks are observed
\* sockets ever created by the instance
CaptureSockets == 2
\* inbound audio messages
CaptureAudio == 1
\* capture samples are the multiples of 1/SampleUnit from -MaxSample/SampleUnit
\* to MaxSample/SampleUnit
SampleUnit == 8
MaxSample == 9
\* SpecBlob: one instance started once whose binary messages may arrive as Blob
\* sockets ever created by the instance
BlobSockets == 2
\* inbound audio messages
BlobAudio == 2
\* SpecPlayback: one instance started once whose source.start() may throw
\* sockets ever created by the instance
PlaybackSockets == 2
\* inbound audio messages
PlaybackAudio == 2
\* SpecFair: one instance started once, whose timers, promises and media
\* events are eventually delivered
\* sockets ever created by the instance
FairSockets == 2
\* inbound audio messages
FairAudio == 2
\* SpecClosing: one instance started once, whose events are delivered and
\* whose connections all end
\* sockets ever created by the instance
ClosingSockets == 4
\* inbound audio messages
ClosingAudio == 1
\* SpecApp: the page, with the pipelines its start control constructs
\* VoicePipeline objects ever constructed by the page
MaxInstances == 3

\* sample counts of inbound audio messages (0 = empty binary frame)
Sizes == {0, 1600, 2000}

\* the strings of transcript messages, as sequences of characters
Contents == {<<>>, <<" ">>, <<" ", "a", " ">>}
Texts == {<<>>, <<"a">>}
Roles == {"user", "assistant"}
\* the fields of a ConversationText message that handleTranscript reads
\* (an absent field reads like the empty string)
TextMsgs == [role : Roles, content : Contents, text : Texts]
NoMsg == [role |-> "", content |-> <<>>, text |-> <<>>]

\* a capture block: its samples, each given by its numerator over SampleUnit
Blocks == {<<n>> : n \in (0 - MaxSample)..MaxSample}

Null == 0
\* currentSource = null
NoSource == [buf |-> <<>>, ctx |-> Null]

VARIABLES
    isRunning,            \* this.isRunning
    mediaStream,          \* this.mediaStream: Null or the id of a stream
    audioContext,         \* this.audioContext: Null or the id of a context pair
    playbackContext,      \* this.playbackContext: Null or the id of a context pair
    analyser,             \* this.analyser is non-null
    scriptProcessor,      \* this.scriptProcessor (with sourceNode, silentGainNode) is non-null
    animationFrame,       \* this.animationFrame: Null or the chain whose frame was requested last
    socket,               \* this.socket: Null or a socket id
    reconnectAttempts,    \* this.reconnectAttempts
    audioQueue,           \* this.audioQueue: sequence of chunks
    isPlaying,            \* this.isPlaying
    currentSource,        \* this.currentSource: NoSource or a source
    pendingAudioChunks,   \* this.pendingAudioChunks: sequence of [id, len]
    pendingSamples,       \* this.pendingSamples
    \* ---- browser side
    starts,               \* position of each start() call: "none","gum","resume","done",
                          \* or "failed" when its getUserMedia was rejected
    liveTracks,           \* streams whose tracks have not been stopped (held microphones)
    openContexts,         \* context pairs that have not been closed
    pendingFrames,        \* chains with a requested animation frame not yet run
    sockets,              \* readyState of each socket: "none","CONNECTING","OPEN","CLOSING","CLOSED"
    timers,               \* pending reconnect timers (setTimeout of onclose)
    playing,              \* sources that are audibly playing
    endedPending,         \* stopped sources whose ended event has not been dispatched yet
    nextAudio,            \* id of the next inbound audio message
    decoding,             \* binary messages delivered as Blob whose arrayBuffer() is pending
    \* ---- observer side
    state,                \* last value given to onStateChange
    interimText,          \* last value given to onInterimTranscript
    transcript,           \* the entries given to onFinalTranscript, in order
    \* ---- the page (Index.tsx)
    instances,            \* phase of each VoicePipeline the page constructed: "none",
                          \* "acquiring", "connecting", "listening" or "stopped"
    pipelineRef,          \* pipelineRef.current: Null or an instance
    \* ---- history
    limits,               \* the bounds of the run: [starts, sockets, audio], never changed
    lastOp,               \* the handler run by the last step
    lastMsg,              \* the transcript message handled by the last step, or NoMsg
    lastBlock,            \* the capture block handled by the last step, or <<>>
    lastSent,             \* the messages sent by the last step: [to, kind, data], in order
    emitted,              \* the callbacks invoked by the last step, in order
    interruptedUpTo,      \* id of the last audio message received before the last interruptPlayback
    closesRunning         \* closes handled while running since the last SettingsApplied

pipeVars == <<isRunning, mediaStream, audioContext, playbackContext, analyser,
              scriptProcessor, animationFrame, socket, reconnectAttempts>>
engVars == <<audioQueue, isPlaying, currentSource, pendingAudioChunks, pendingSamples,
             playing, endedPending, interruptedUpTo>>
envVars == <<starts, liveTracks, openContexts, pendingFrames, sockets, timers, nextAudio>>
obsVars == <<state, interimText, transcript>>
outVars == <<decoding, lastBlock, lastSent>>
appVars == <<instances, pipelineRef>>
vars == <<pipeVars, engVars, envVars, obsVars, outVars, appVars, lastOp, lastMsg, emitted,
          closesRunning, limits>>

SocketIds == 1..limits.sockets
InstanceIds == 1..MaxInstances
StartIds == 1..limits.starts

\* ----------------------------------------------------------------- helpers
Max(S) == CHOOSE x \in S : \A y \in S : y <= x
Min(S) == CHOOSE x \in S : \A y \in S : x <= y

\* the value of the last call on channel ch in calls, or old if there is none
LastCall(calls, ch, old) ==
    LET I == {i \in DOMAIN calls : calls[i][1] = ch}
    IN IF I = {} THEN old ELSE calls[Max(I)][2]

\* the entries of the onFinalTranscript calls in calls, in order
Finals(calls) ==
    LET F == SelectSeq(calls, LAMBDA c : c[1] = "final")
    IN [i \in 1..Len(F) |-> F[i][2]]

\* the observer applies the callbacks of one step (Index.tsx: setState,
\* setInterimText, setTranscript)
ObserveCalls(calls) ==
    /\ state' = LastCall(calls, "state", state)
    /\ interimText' = LastCall(calls, "interim", interimText)
    /\ transcript' = transcript \o Finals(calls)
    /\ emitted' = calls
    /\ UNCHANGED appVars

\* a step that makes the callbacks calls and sends out, and handles neither a
\* transcript message nor a capture block nor a Blob
ObserveSend(calls, out) ==
    /\ ObserveCalls(calls)
    /\ lastSent' = out
    /\ lastMsg' = NoMsg
    /\ lastBlock' = <<>>
    /\ UNCHANGED <<limits, decoding>>

\* such a step that sends nothing
Observe(calls) == ObserveSend(calls, <<>>)

\* ids of the audio messages a chunk (a sequence of [id, len]) is made of
IdsOf(chunk) == {chunk[i].id : i \in DOMAIN chunk}

\* the playback engine's fields as one value; calls collects the callbacks made
Eng == [audioQueue |-> audioQueue, isPlaying |-> isPlaying, currentSource |-> currentSource,
        pendingAudioChunks |-> pendingAudioChunks, pendingSamples |-> pendingSamples,
        playing |-> playing, endedPending |-> endedPending,
        interruptedUpTo |-> interruptedUpTo,
        calls |-> <<>>]

SetEng(e) ==
    /\ audioQueue' = e.audioQueue
    /\ isPlaying' = e.isPlaying
    /\ currentSource' = e.currentSource
    /\ pendingAudioChunks' = e.pendingAudioChunks
    /\ pendingSamples' = e.pendingSamples
    /\ playing' = e.playing
    /\ endedPending' = e.endedPending
    /\ interruptedUpTo' = e.interruptedUpTo

\* ------------------------------------------------------- playback engine
\* a playNextBuffer() that reports idle when the queue is exhausted
playNextBufferIdle(e) ==
    IF playbackContext = Null \/ e.audioQueue = <<>>
    THEN [e EXCEPT !.isPlaying = FALSE,
                   !.calls = IF isRunning THEN Append(@, <<"state", "idle">>) ELSE @]
    ELSE LET source == [buf |-> Head(e.audioQueue), ctx |-> playbackContext]
         IN [e EXCEPT !.isPlaying = TRUE,
                      !.audioQueue = Tail(@),
                      !.currentSource = source,
                      !.playing = @ \cup {source}]

playNextBuffer(e) ==
    IF playbackContext = Null \/ e.audioQueue = <<>>
    THEN [e EXCEPT !.isPlaying = FALSE,
                   !.calls = IF isRunning THEN Append(@, <<"state", "listening">>) ELSE @]
    ELSE LET source == [buf |-> Head(e.audioQueue), ctx |-> playbackContext]
         IN [e EXCEPT !.isPlaying = TRUE,
                      !.audioQueue = Tail(@),
                      !.currentSource = source,
                      !.playing = @ \cup {source}]

flushAudioBuffer(e) ==
    IF playbackContext = Null \/ e.pendingAudioChunks = <<>>
    THEN e
    ELSE LET e1 == [e EXCEPT !.audioQueue = Append(@, e.pendingAudioChunks),
                             !.pendingAudioChunks = <<>>,
                             !.pendingSamples = 0]
         IN IF ~e1.isPlaying THEN playNextBuffer(e1) ELSE e1

\* a handleAudioChunk() without the test for an empty frame
handleAudioChunkAll(e, int16) ==
    LET e1 == [e EXCEPT !.pendingAudioChunks = Append(@, int16),
                        !.pendingSamples = @ + int16.len]
    IN IF e1.pendingSamples >= BUFFER_SIZE THEN flushAudioBuffer(e1) ELSE e1

handleAudioChunk(e, int16) ==
    IF int16.len = 0
    THEN e
    ELSE LET e1 == [e EXCEPT !.pendingAudioChunks = Append(@, int16),
                             !.pendingSamples = @ + int16.len]
         IN IF e1.pendingSamples >= BUFFER_SIZE THEN flushAudioBuffer(e1) ELSE e1

\* currentSource?.stop() silences the tracked source (its ended event is
\* dispatched later); then every field of the engine is reset
interruptPlayback(e) ==
    LET stopped == {e.currentSource} \cap e.playing
    IN [e EXCEPT !.currentSource = NoSource,
                 !.audioQueue = <<>>,
                 !.pendingAudioChunks = <<>>,
                 !.pendingSamples = 0,
                 !.isPlaying = FALSE,
                 !.playing = @ \ stopped,
                 !.endedPending = @ \cup stopped,
                 !.interruptedUpTo = nextAudio - 1]

\* an onended handler that forgets the source and starts nothing
onendedForgetful(e) == [e EXCEPT !.currentSource = NoSource]

\* source.onended = () => { this.currentSource = null; this.playNextBuffer(); }
onended(e) == playNextBuffer([e EXCEPT !.currentSource = NoSource])

\* --------------------------------------------------------------- stop()
\* The body of stop(), run after the callbacks pre of the same handler, with
\* socks the sockets' readyStates at that moment.  Closing playbackContext
\* silences every source of that context.
stop(pre, socks) ==
    LET e == interruptPlayback(Eng)
        closing == {playbackContext} \ {Null}
    IN /\ isRunning' = FALSE
       /\ pendingFrames' = pendingFrames \ {animationFrame}
       /\ animationFrame' = Null
       /\ SetEng([e EXCEPT !.playing = {s \in @ : s.ctx \notin closing}])
       /\ scriptProcessor' = FALSE
       /\ sockets' = IF socket # Null /\ socks[socket] = "OPEN"
                     THEN [socks EXCEPT ![socket] = "CLOSING"]
                     ELSE socks
       /\ socket' = Null
       /\ liveTracks' = liveTracks \ {mediaStream}
       /\ openContexts' = openContexts \ {audioContext, playbackContext}
       /\ audioContext' = Null
       /\ playbackContext' = Null
       /\ mediaStream' = Null
       /\ Observe(pre \o << <<"interim", <<>>>>, <<"state", "idle">>,
                            <<"level", "0">>, <<"waveform", "">> >>)
       /\ UNCHANGED analyser

\* a stop() that reports an error when the pipeline is not running
StopComplaining ==
    /\ stop(IF isRunning THEN <<>> ELSE << <<"error", "stopped">> >>, sockets)
    /\ lastOp' = IF lastOp \in {"stop", "stop2"} THEN "stop2" ELSE "stop"
    /\ UNCHANGED <<reconnectAttempts, starts, timers, nextAudio, closesRunning>>

\* the public stop(), called by the owner of the pipeline
Stop ==
    /\ stop(<<>>, sockets)
    /\ lastOp' = IF lastOp \in {"stop", "stop2"} THEN "stop2" ELSE "stop"
    /\ UNCHANGED <<reconnectAttempts, starts, timers, nextAudio, closesRunning>>

\* ------------------------------------------------------- connectAgent()
FreeSockets == {s \in SocketIds : sockets[s] = "none"}

\* connectAgent() without its isRunning guard
connectAgentUnguarded ==
    /\ FreeSockets # {}
    /\ socket' = Min(FreeSockets)
    /\ sockets' = [sockets EXCEPT ![Min(FreeSockets)] = "CONNECTING"]

\* connectAgent(): a new socket in CONNECTING replaces this.socket; the
\* handlers of the socket it replaces stay attached
connectAgent ==
    IF ~isRunning
    THEN UNCHANGED <<socket, sockets>>
    ELSE /\ FreeSockets # {}
         /\ socket' = Min(FreeSockets)
         /\ sockets' = [sockets EXCEPT ![Min(FreeSockets)] = "CONNECTING"]

\* -------------------------------------------------------------- start()
FreeStarts == {k \in StartIds : starts[k] = "none"}

\* a catch block that reports the error and tears nothing down
startCatchNoStop ==
    /\ Observe(<< <<"error", "mic">> >>)
    /\ UNCHANGED <<isRunning, mediaStream, audioContext, playbackContext, analyser,
                   scriptProcessor, animationFrame, socket, engVars, liveTracks,
                   openContexts, pendingFrames, sockets>>

\* the catch block of start(): onError, then stop()
startCatch ==
    stop(<< <<"error", "mic">> >>, sockets)

\* a start() without its isRunning guard: it asks for the microphone again
StartUnguarded ==
    /\ lastOp' = "start"
    /\ Observe(<<>>)
    /\ isRunning' = TRUE
    /\ starts' = [starts EXCEPT ![IF FreeStarts # {} THEN Min(FreeStarts) ELSE 1] = "gum"]
    /\ UNCHANGED <<mediaStream, audioContext, playbackContext, analyser,
                   scriptProcessor, animationFrame, socket, reconnectAttempts,
                   engVars, liveTracks, openContexts, pendingFrames, sockets,
                   timers, nextAudio, closesRunning>>

\* start() up to its first await (getUserMedia)
Start ==
    /\ lastOp' = "start"
    /\ Observe(<<>>)
    /\ IF isRunning
       THEN UNCHANGED <<pipeVars, engVars, envVars, closesRunning>>
       ELSE /\ FreeStarts # {}
            /\ isRunning' = TRUE
            /\ starts' = [starts EXCEPT ![Min(FreeStarts)] = "gum"]
            /\ UNCHANGED <<mediaStream, audioContext, playbackContext, analyser,
                           scriptProcessor, animationFrame, socket, reconnectAttempts,
                           engVars, liveTracks, openContexts, pendingFrames, sockets,
                           timers, nextAudio, closesRunning>>

\* getUserMedia settles: on success the stream and two new contexts are stored
\* and start() awaits audioContext.resume(); on failure the catch block runs
GumResolve(k, ok) ==
    /\ starts[k] = "gum"
    /\ lastOp' = IF ok THEN "gumOk" ELSE "gumFail"
    /\ IF ok
       THEN /\ starts' = [starts EXCEPT ![k] = "resume"]
            /\ mediaStream' = k
            /\ liveTracks' = liveTracks \cup {k}
            /\ audioContext' = k
            /\ playbackContext' = k
            /\ openContexts' = openContexts \cup {k}
            /\ Observe(<<>>)
            /\ UNCHANGED <<isRunning, analyser, scriptProcessor, animationFrame, socket,
                           reconnectAttempts, engVars, pendingFrames, sockets, timers,
                           nextAudio, closesRunning>>
       ELSE /\ starts' = [starts EXCEPT ![k] = "failed"]
            /\ startCatch
            /\ UNCHANGED <<reconnectAttempts, timers, nextAudio, closesRunning>>

\* after await audioContext.resume() and await playbackContext.resume()
\* (nothing is assigned between the two awaits): this.playbackContext.resume()
\* or this.audioContext.createMediaStreamSource throws a TypeError when stop()
\* has set the contexts to null meanwhile; otherwise the capture graph is
\* built, monitorAudio() runs its first tick and connectAgent() is called
Resumed(k) ==
    /\ starts[k] = "resume"
    /\ lastOp' = "resumed"
    /\ starts' = [starts EXCEPT ![k] = "done"]
    /\ IF audioContext = Null \/ playbackContext = Null
       THEN /\ startCatch
            /\ UNCHANGED <<reconnectAttempts, timers, nextAudio, closesRunning>>
       ELSE /\ analyser' = TRUE
            /\ scriptProcessor' = TRUE
            /\ IF isRunning
               THEN /\ animationFrame' = k
                    /\ pendingFrames' = pendingFrames \cup {k}
                    /\ Observe(<< <<"level", "live">>, <<"waveform", "live">> >>)
               ELSE /\ UNCHANGED <<animationFrame, pendingFrames>>
                    /\ Observe(<<>>)
            /\ connectAgent
            /\ UNCHANGED <<isRunning, mediaStream, audioContext, playbackContext,
                           reconnectAttempts, engVars, liveTracks, openContexts, timers,
                           nextAudio, closesRunning>>

\* a requested animation frame runs tick()
Tick(k) ==
    /\ k \in pendingFrames
    /\ lastOp' = "tick"
    /\ IF analyser /\ isRunning
       THEN /\ animationFrame' = k
            /\ UNCHANGED pendingFrames
            /\ Observe(<< <<"level", "live">>, <<"waveform", "live">> >>)
       ELSE /\ pendingFrames' = pendingFrames \ {k}
            /\ UNCHANGED animationFrame
            /\ Observe(<<>>)
    /\ UNCHANGED <<isRunning, mediaStream, audioContext, playbackContext, analyser,
                   scriptProcessor, socket, reconnectAttempts, engVars, starts,
                   liveTracks, openContexts, sockets, timers, nextAudio, closesRunning>>

\* ------------------------------------------------------- capture blocks
\* Math.max(-1, Math.min(1, float32[i])), on numerators over SampleUnit
clamp(n) == Max({0 - SampleUnit, Min({SampleUnit, n})})

\* s < 0 ? s * 0x8000 : s * 0x7fff, as the numerator of a fraction over SampleUnit
scale(c) == IF c < 0 THEN c * 32768 ELSE c * 32767

\* the conversion done by storing the number a/b into an Int16Array element:
\* truncation toward zero, then reduction modulo 2^16 into -32768..32767
ToInt16(a, b) ==
    LET int == IF a >= 0 THEN a \div b ELSE 0 - ((0 - a) \div b)
    IN ((int + 32768) % 65536) - 32768

\* int16[i] for the sample float32[i] = n / SampleUnit
encode(n) == ToInt16(scale(clamp(n)), SampleUnit)

\* an onaudioprocess handler that checks only that there is a socket
OnAudioProcessUnguarded(block) ==
    /\ scriptProcessor
    /\ lastOp' = "audioprocess"
    /\ lastBlock' = block
    /\ lastSent' = IF socket # Null
                   THEN << [to |-> socket, kind |-> "audio",
                            data |-> [i \in DOMAIN block |-> encode(block[i])]] >>
                   ELSE <<>>
    /\ ObserveCalls(<<>>)
    /\ lastMsg' = NoMsg
    /\ UNCHANGED <<pipeVars, engVars, envVars, closesRunning, limits, decoding>>

\* scriptProcessor.onaudioprocess for one capture block
OnAudioProcess(block) ==
    /\ scriptProcessor
    /\ lastOp' = "audioprocess"
    /\ lastBlock' = block
    /\ lastSent' = IF isRunning /\ socket # Null /\ sockets[socket] = "OPEN"
                   THEN << [to |-> socket, kind |-> "audio",
                            data |-> [i \in DOMAIN block |-> encode(block[i])]] >>
                   ELSE <<>>
    /\ ObserveCalls(<<>>)
    /\ lastMsg' = NoMsg
    /\ UNCHANGED <<pipeVars, engVars, envVars, closesRunning, limits, decoding>>

\* ------------------------------------------------------- socket events
\* this.socket?.send(Settings) in onopen of socket s, with socks the readyStates
\* at that moment: nothing happens without a current socket; send() throws on
\* a CONNECTING socket and discards the data on a CLOSING or CLOSED one
settingsSent(s, socks) ==
    IF socket # Null /\ socks[socket] = "OPEN"
    THEN << [to |-> socket, kind |-> "Settings", data |-> <<>>] >>
    ELSE <<>>

\* socket.onopen: the Settings message goes to this.socket
SocketOpen(s) ==
    /\ sockets[s] = "CONNECTING"
    /\ lastOp' = "onopen"
    /\ sockets' = [sockets EXCEPT ![s] = "OPEN"]
    /\ ObserveSend(<<>>, settingsSent(s, [sockets EXCEPT ![s] = "OPEN"]))
    /\ UNCHANGED <<pipeVars, engVars, starts, liveTracks, openContexts, pendingFrames,
                   timers, nextAudio, closesRunning>>

\* a text message whose handler only reports to the observer
Report(s, op, calls) ==
    /\ sockets[s] = "OPEN"
    /\ lastOp' = op
    /\ Observe(calls)
    /\ UNCHANGED <<pipeVars, engVars, envVars, closesRunning>>

\* a SettingsApplied handler that keeps the reconnect counter
OnSettingsAppliedNoReset(s) ==
    /\ sockets[s] = "OPEN"
    /\ lastOp' = "SettingsApplied"
    /\ closesRunning' = 0
    /\ Observe(<< <<"state", "listening">> >>)
    /\ UNCHANGED <<pipeVars, engVars, envVars>>

\* case "SettingsApplied"
OnSettingsApplied(s) ==
    /\ sockets[s] = "OPEN"
    /\ lastOp' = "SettingsApplied"
    /\ reconnectAttempts' = 0
    /\ closesRunning' = 0
    /\ Observe(<< <<"state", "listening">> >>)
    /\ UNCHANGED <<isRunning, mediaStream, audioContext, playbackContext, analyser,
                   scriptProcessor, animationFrame, socket, engVars, envVars>>

\* case "UserStartedSpeaking"
OnUserStartedSpeaking(s) ==
    /\ sockets[s] = "OPEN"
    /\ lastOp' = "UserStartedSpeaking"
    /\ SetEng(interruptPlayback(Eng))
    /\ Observe(<< <<"state", "listening">> >>)
    /\ UNCHANGED <<pipeVars, envVars, closesRunning>>

\* an AgentThinking case that reports nothing
OnAgentThinkingIgnored(s) == Report(s, "AgentThinking", <<>>)

\* case "AgentThinking"
OnAgentThinking(s) == Report(s, "AgentThinking", << <<"state", "thinking">> >>)

\* case "AgentStartedSpeaking"
OnAgentStartedSpeaking(s) == Report(s, "AgentStartedSpeaking", << <<"state", "speaking">> >>)

\* an Error case that also tears the session down
OnAgentErrorFatal(s) ==
    /\ sockets[s] = "OPEN"
    /\ lastOp' = "Error"
    /\ stop(<< <<"error", "agent">> >>, sockets)
    /\ UNCHANGED <<reconnectAttempts, starts, timers, nextAudio, closesRunning>>

\* case "Error"
OnAgentError(s) == Report(s, "Error", << <<"error", "agent">> >>)

\* a handler that surfaces an error for a message it cannot use
OnDroppedComplaining(s) == Report(s, "dropped", << <<"error", "parse">> >>)

\* default case, and text that JSON.parse rejects (caught and ignored)
OnDropped(s) == Report(s, "dropped", <<>>)

\* String.prototype.trim on a sequence of characters
RECURSIVE trimStart(_)
trimStart(t) == IF t # <<>> /\ Head(t) = " " THEN trimStart(Tail(t)) ELSE t

RECURSIVE trimEnd(_)
trimEnd(t) == IF t # <<>> /\ t[Len(t)] = " " THEN trimEnd(SubSeq(t, 1, Len(t) - 1)) ELSE t

trim(t) == trimEnd(trimStart(t))

\* a handleTranscript() that does not trim
handleTranscriptUntrimmed(msg) ==
    LET text == IF msg.content # <<>> THEN msg.content ELSE msg.text
    IN IF text = <<>>
       THEN <<>>
       ELSE << <<"interim", <<>>>>,
               <<"final", [role |-> IF msg.role = "user" THEN "user" ELSE "assistant",
                           text |-> text]>> >>

\* handleTranscript(msg): the callbacks it makes (the timestamp is left out);
\* msg.content || msg.text || "" takes the first non-empty string
handleTranscript(msg) ==
    LET text == IF msg.content # <<>> THEN msg.content ELSE msg.text
    IN IF trim(text) = <<>>
       THEN <<>>
       ELSE << <<"interim", <<>>>>,
               <<"final", [role |-> IF msg.role = "user" THEN "user" ELSE "assistant",
                           text |-> trim(text)]>> >>

\* case "ConversationText"
OnConversationText(s, msg) ==
    /\ sockets[s] = "OPEN"
    /\ Len(transcript) + Len(Finals(handleTranscript(msg))) <= limits.texts
    /\ lastOp' = "ConversationText"
    /\ lastMsg' = msg
    /\ ObserveCalls(handleTranscript(msg))
    /\ lastSent' = <<>>
    /\ lastBlock' = <<>>
    /\ UNCHANGED <<pipeVars, engVars, envVars, closesRunning, limits, decoding>>

\* a message of type "UserTranscriptInterim" or "TranscriptInterim": the
\* switch has no case for it, so it takes the default branch
OnTranscriptInterim(s, msg) ==
    /\ sockets[s] = "OPEN"
    /\ lastOp' = "TranscriptInterim"
    /\ lastMsg' = msg
    /\ ObserveCalls(<<>>)
    /\ lastSent' = <<>>
    /\ lastBlock' = <<>>
    /\ UNCHANGED <<pipeVars, engVars, envVars, closesRunning, limits, decoding>>

\* case "AgentAudioDone"
OnAgentAudioDone(s) ==
    /\ sockets[s] = "OPEN"
    /\ lastOp' = "AgentAudioDone"
    /\ LET e == flushAudioBuffer(Eng)
       IN SetEng(e) /\ Observe(e.calls)
    /\ UNCHANGED <<pipeVars, envVars, closesRunning>>

\* a binary message of len samples
OnAudio(s, len) ==
    /\ sockets[s] = "OPEN"
    /\ nextAudio <= limits.audio
    /\ lastOp' = "audio"
    /\ LET e == handleAudioChunk(Eng, [id |-> nextAudio, len |-> len])
       IN SetEng(e) /\ Observe(e.calls)
    /\ nextAudio' = nextAudio + 1
    /\ UNCHANGED <<pipeVars, starts, liveTracks, openContexts, pendingFrames, sockets,
                   timers, closesRunning>>

\* a binary message of len samples delivered as a Blob: its arrayBuffer() is
\* requested and the handler returns
OnBlob(s, len) ==
    /\ sockets[s] = "OPEN"
    /\ nextAudio <= limits.audio
    /\ lastOp' = "blob"
    /\ decoding' = decoding \cup {[id |-> nextAudio, len |-> len]}
    /\ nextAudio' = nextAudio + 1
    /\ ObserveCalls(<<>>)
    /\ lastMsg' = NoMsg /\ lastBlock' = <<>> /\ lastSent' = <<>>
    /\ UNCHANGED <<pipeVars, engVars, starts, liveTracks, openContexts, pendingFrames,
                   sockets, timers, closesRunning, limits>>

\* arrayBuffer() of a Blob settles: .then(buf => this.handleAudioChunk(...))
BlobDecoded(b) ==
    /\ b \in decoding
    /\ lastOp' = "blobDecoded"
    /\ decoding' = decoding \ {b}
    /\ LET e == handleAudioChunk(Eng, b)
       IN SetEng(e) /\ ObserveCalls(e.calls)
    /\ lastMsg' = NoMsg /\ lastBlock' = <<>> /\ lastSent' = <<>>
    /\ UNCHANGED <<pipeVars, envVars, closesRunning, limits>>

\* a reconnect test without the budget
canReconnectAlways == isRunning

\* onclose: if (this.isRunning && this.reconnectAttempts < this.MAX_RECONNECTS)
canReconnectOffByOne == isRunning /\ reconnectAttempts <= MAX_RECONNECTS
canReconnect == isRunning /\ reconnectAttempts < MAX_RECONNECTS

\* onclose: else if (this.reconnectAttempts >= this.MAX_RECONNECTS)
budgetExhausted == reconnectAttempts >= MAX_RECONNECTS

\* an onclose whose reconnect branch also resets the playback engine and
\* reports listening
SocketClosedResetting(s, failed) ==
    /\ sockets[s] \in {"CONNECTING", "OPEN", "CLOSING"}
    /\ sockets[s] = "CONNECTING" => failed
    /\ sockets[s] = "CLOSING" => ~failed
    /\ LET socks == [sockets EXCEPT ![s] = "CLOSED"]
           pre == IF failed THEN << <<"error", "conn">> >> ELSE <<>>
       IN IF canReconnect
          THEN /\ lastOp' = "oncloseReconnect"
               /\ reconnectAttempts' = reconnectAttempts + 1
               /\ timers' = timers + 1
               /\ closesRunning' = closesRunning + 1
               /\ sockets' = socks
               /\ SetEng(interruptPlayback(Eng))
               /\ Observe(Append(pre, <<"state", "listening">>))
               /\ UNCHANGED <<isRunning, mediaStream, audioContext, playbackContext,
                              analyser, scriptProcessor, animationFrame, socket,
                              starts, liveTracks, openContexts, pendingFrames, nextAudio>>
          ELSE IF budgetExhausted
          THEN /\ lastOp' = IF isRunning THEN "oncloseFatal" ELSE "oncloseStopped"
               /\ stop(Append(pre, <<"error", "lost">>), socks)
               /\ closesRunning' = IF isRunning THEN closesRunning + 1 ELSE closesRunning
               /\ UNCHANGED <<reconnectAttempts, starts, timers, nextAudio>>
          ELSE /\ lastOp' = "oncloseIdle"
               /\ sockets' = socks
               /\ Observe(pre)
               /\ UNCHANGED <<pipeVars, engVars, starts, liveTracks, openContexts,
                              pendingFrames, timers, nextAudio, closesRunning>>

\* the connection of s ends: onerror when it failed, then onclose
SocketClosed(s, failed) ==
    /\ sockets[s] \in {"CONNECTING", "OPEN", "CLOSING"}
    /\ sockets[s] = "CONNECTING" => failed
    /\ sockets[s] = "CLOSING" => ~failed
    /\ LET socks == [sockets EXCEPT ![s] = "CLOSED"]
           pre == IF failed THEN << <<"error", "conn">> >> ELSE <<>>
       IN IF canReconnect
          THEN /\ lastOp' = "oncloseReconnect"
               /\ reconnectAttempts' = reconnectAttempts + 1
               /\ timers' = timers + 1
               /\ closesRunning' = closesRunning + 1
               /\ sockets' = socks
               /\ Observe(pre)
               /\ UNCHANGED <<isRunning, mediaStream, audioContext, playbackContext,
                              analyser, scriptProcessor, animationFrame, socket, engVars,
                              starts, liveTracks, openContexts, pendingFrames, nextAudio>>
          ELSE IF budgetExhausted
          THEN /\ lastOp' = IF isRunning THEN "oncloseFatal" ELSE "oncloseStopped"
               /\ stop(Append(pre, <<"error", "lost">>), socks)
               /\ closesRunning' = IF isRunning THEN closesRunning + 1 ELSE closesRunning
               /\ UNCHANGED <<reconnectAttempts, starts, timers, nextAudio>>
          ELSE /\ lastOp' = "oncloseIdle"
               /\ sockets' = socks
               /\ Observe(pre)
               /\ UNCHANGED <<pipeVars, engVars, starts, liveTracks, openContexts,
                              pendingFrames, timers, nextAudio, closesRunning>>

\* setTimeout(() => this.connectAgent(), 1000) fires
TimerFire ==
    /\ timers > 0
    /\ lastOp' = "timer"
    /\ timers' = timers - 1
    /\ connectAgent
    /\ Observe(<<>>)
    /\ UNCHANGED <<isRunning, mediaStream, audioContext, playbackContext, analyser,
                   scriptProcessor, animationFrame, reconnectAttempts, engVars, starts,
                   liveTracks, openContexts, pendingFrames, nextAudio, closesRunning>>

\* ------------------------------------------------------ playback events
\* a playing source reaches the end of its buffer: its onended handler runs
SourceEnded(src) ==
    /\ src \in playing
    /\ lastOp' = "ended"
    /\ LET e == onended([Eng EXCEPT !.playing = @ \ {src}])
       IN SetEng(e) /\ Observe(e.calls)
    /\ UNCHANGED <<pipeVars, envVars, closesRunning>>

\* the ended event of a source stopped by interruptPlayback is dispatched
StoppedEnded(src) ==
    /\ src \in endedPending
    /\ lastOp' = "endedStopped"
    /\ LET e == onended([Eng EXCEPT !.endedPending = @ \ {src}])
       IN SetEng(e) /\ Observe(e.calls)
    /\ UNCHANGED <<pipeVars, envVars, closesRunning>>

\* ------------------------------------------------------ playback failure
\* playNextBuffer() when source.start() throws: isPlaying is already true,
\* the buffer is already shifted off the queue and currentSource is set, but
\* no source plays and no ended event will follow
playNextBufferThrows(e) ==
    LET source == [buf |-> Head(e.audioQueue), ctx |-> playbackContext]
    IN [e EXCEPT !.isPlaying = TRUE,
                 !.audioQueue = Tail(@),
                 !.currentSource = source]

\* case "AgentAudioDone" when the flush starts a chunk and source.start()
\* throws; the exception is swallowed by the catch of onmessage
OnAgentAudioDoneThrows(s) ==
    /\ sockets[s] = "OPEN"
    /\ playbackContext # Null /\ pendingAudioChunks # <<>> /\ ~isPlaying
    /\ lastOp' = "startThrows"
    /\ SetEng(playNextBufferThrows([Eng EXCEPT !.audioQueue = Append(@, pendingAudioChunks),
                                               !.pendingAudioChunks = <<>>,
                                               !.pendingSamples = 0]))
    /\ Observe(<<>>)
    /\ UNCHANGED <<pipeVars, envVars, closesRunning>>

\* the onended handler of a finished source when starting the next chunk
\* throws; the exception leaves the event handler uncaught
SourceEndedThrows(src) ==
    /\ src \in playing
    /\ playbackContext # Null /\ audioQueue # <<>>
    /\ lastOp' = "startThrows"
    /\ SetEng(playNextBufferThrows([Eng EXCEPT !.playing = @ \ {src},
                                               !.currentSource = NoSource]))
    /\ Observe(<<>>)
    /\ UNCHANGED <<pipeVars, envVars, closesRunning>>

\* ----------------------------------------------------------------- system
InitWith(lim) ==
    /\ limits = lim
    /\ isRunning = FALSE
    /\ mediaStream = Null
    /\ audioContext = Null
    /\ playbackContext = Null
    /\ analyser = FALSE
    /\ scriptProcessor = FALSE
    /\ animationFrame = Null
    /\ socket = Null
    /\ reconnectAttempts = 0
    /\ audioQueue = <<>>
    /\ isPlaying = FALSE
    /\ currentSource = NoSource
    /\ pendingAudioChunks = <<>>
    /\ pendingSamples = 0
    /\ starts = [k \in 1..lim.starts |-> "none"]
    /\ liveTracks = {}
    /\ openContexts = {}
    /\ pendingFrames = {}
    /\ sockets = [s \in 1..lim.sockets |-> "none"]
    /\ timers = 0
    /\ playing = {}
    /\ endedPending = {}
    /\ nextAudio = 1
    /\ decoding = {}
    /\ lastBlock = <<>>
    /\ lastSent = <<>>
    /\ state = "idle"
    /\ interimText = <<>>
    /\ transcript = <<>>
    /\ lastMsg = NoMsg
    /\ lastOp = "init"
    /\ emitted = <<>>
    /\ interruptedUpTo = 0
    /\ closesRunning = 0
    /\ instances = [i \in InstanceIds |-> "none"]
    /\ pipelineRef = Null

\* a pipeline constructed by handleStart (Index.tsx), which calls start() once
Init == InitWith([starts |-> 1, sockets |-> MaxSockets, audio |-> MaxAudio])

\* a pipeline whose owner may restart it
InitRestart ==
    InitWith([starts |-> RestartStarts, sockets |-> RestartSockets, audio |-> RestartAudio])

Next ==
    \/ Start
    \/ Stop
    \/ \E k \in StartIds, ok \in BOOLEAN : GumResolve(k, ok)
    \/ \E k \in StartIds : Resumed(k)
    \/ \E k \in StartIds : Tick(k)
    \/ \E s \in SocketIds : SocketOpen(s)
    \/ \E s \in SocketIds : OnSettingsApplied(s)
    \/ \E s \in SocketIds : OnUserStartedSpeaking(s)
    \/ \E s \in SocketIds : OnAgentThinking(s)
    \/ \E s \in SocketIds : OnAgentStartedSpeaking(s)
    \/ \E s \in SocketIds : OnAgentAudioDone(s)
    \/ \E s \in SocketIds : OnAgentError(s)
    \/ \E s \in SocketIds : OnDropped(s)
    \/ \E s \in SocketIds, len \in Sizes : OnAudio(s, len)
    \/ \E s \in SocketIds, failed \in BOOLEAN : SocketClosed(s, failed)
    \/ TimerFire
    \/ \E src \in playing : SourceEnded(src)
    \/ \E src \in endedPending : StoppedEnded(src)

Spec == Init /\ [][Next]_vars

SpecRestart == InitRestart /\ [][Next]_vars

\* a pipeline constructed by handleStart whose remote also sends transcript
\* messages; their handlers assign no field of the pipeline
InitText ==
    InitWith([starts |-> 1, sockets |-> TextSockets, audio |-> TextAudio,
              texts |-> TextTranscripts])

NextText ==
    \/ Next
    \/ \E s \in SocketIds, msg \in TextMsgs : OnConversationText(s, msg)
    \/ \E s \in SocketIds, msg \in TextMsgs : OnTranscriptInterim(s, msg)

SpecText == InitText /\ [][NextText]_vars

\* a pipeline constructed by handleStart, with the capture blocks that its
\* ScriptProcessor delivers; their handler assigns no field of the pipeline
InitCapture ==
    InitWith([starts |-> 1, sockets |-> CaptureSockets, audio |-> CaptureAudio])

NextCapture ==
    \/ Next
    \/ \E block \in Blocks : OnAudioProcess(block)

SpecCapture == InitCapture /\ [][NextCapture]_vars

\* a pipeline constructed by handleStart whose binary messages may be
\* delivered as Blob (onmessage handles both representations)
InitBlob ==
    InitWith([starts |-> 1, sockets |-> BlobSockets, audio |-> BlobAudio])

NextBlob ==
    \/ Next
    \/ \E s \in SocketIds, len \in Sizes : OnBlob(s, len)
    \/ \E b \in decoding : BlobDecoded(b)

SpecBlob == InitBlob /\ [][NextBlob]_vars

\* a pipeline constructed by handleStart on a platform where starting a
\* source may fail
InitPlayback ==
    InitWith([starts |-> 1, sockets |-> PlaybackSockets, audio |-> PlaybackAudio])

NextPlayback ==
    \/ Next
    \/ \E s \in SocketIds : OnAgentAudioDoneThrows(s)
    \/ \E src \in playing : SourceEndedThrows(src)

SpecPlayback == InitPlayback /\ [][NextPlayback]_vars

\* ---------------------------------------------------------------- the page
\* Index.tsx with every VoicePipeline it constructs.  Each pipeline is followed
\* through the phases that its callbacks show to the page: "acquiring" from
\* start() to the settling of getUserMedia, "connecting" until SettingsApplied
\* reports listening, "listening" afterwards, "stopped" after stop().  All
\* pipelines call the same setState.
Live == {i \in InstanceIds : instances[i] \in {"acquiring", "connecting", "listening"}}

\* a step of the page or of one of its pipelines: the pipeline followed in
\* detail by the other actions is not involved
PageStep(op, calls) ==
    /\ lastOp' = op
    /\ state' = LastCall(calls, "state", state)
    /\ interimText' = LastCall(calls, "interim", interimText)
    /\ emitted' = calls
    /\ UNCHANGED <<pipeVars, engVars, envVars, outVars, lastMsg, closesRunning, limits>>

\* the START CALL button is rendered while state is "idle"
handleStart ==
    /\ state = "idle"
    /\ \E i \in InstanceIds :
          /\ instances[i] = "none"
          /\ \A j \in InstanceIds : j < i => instances[j] # "none"
          /\ instances' = [instances EXCEPT ![i] = "acquiring"]
          /\ pipelineRef' = i
    /\ transcript' = <<>>
    /\ PageStep("handleStart", <<>>)

\* the END CALL button is rendered while state is not "idle"
handleStop ==
    /\ state # "idle"
    /\ instances' = IF pipelineRef # Null /\ pipelineRef \in Live
                    THEN [instances EXCEPT ![pipelineRef] = "stopped"]
                    ELSE instances
    /\ pipelineRef' = Null
    /\ UNCHANGED transcript
    /\ PageStep("handleStop",
                IF pipelineRef # Null
                THEN << <<"interim", <<>>>>, <<"state", "idle">>,
                        <<"level", "0">>, <<"waveform", "">> >>
                ELSE <<>>)

\* getUserMedia of pipeline i settles: granted, or rejected (onError, stop())
Acquired(i, ok) ==
    /\ instances[i] = "acquiring"
    /\ instances' = [instances EXCEPT ![i] = IF ok THEN "connecting" ELSE "stopped"]
    /\ UNCHANGED <<pipelineRef, transcript>>
    /\ PageStep(IF ok THEN "acquired" ELSE "denied",
                IF ok THEN << <<"level", "live">>, <<"waveform", "live">> >>
                ELSE << <<"error", "mic">>, <<"interim", <<>>>>, <<"state", "idle">>,
                        <<"level", "0">>, <<"waveform", "">> >>)

\* SettingsApplied reaches pipeline i
Applied(i) ==
    /\ instances[i] \in {"connecting", "listening"}
    /\ instances' = [instances EXCEPT ![i] = "listening"]
    /\ UNCHANGED <<pipelineRef, transcript>>
    /\ PageStep("applied", << <<"state", "listening">> >>)

\* the connection of pipeline i is lost for good: onError, stop()
Lost(i) ==
    /\ instances[i] \in {"connecting", "listening"}
    /\ instances' = [instances EXCEPT ![i] = "stopped"]
    /\ UNCHANGED <<pipelineRef, transcript>>
    /\ PageStep("lost", << <<"error", "lost">>, <<"interim", <<>>>>, <<"state", "idle">>,
                           <<"level", "0">>, <<"waveform", "">> >>)

NextApp ==
    \/ handleStart
    \/ handleStop
    \/ \E i \in InstanceIds, ok \in BOOLEAN : Acquired(i, ok)
    \/ \E i \in InstanceIds : Applied(i)
    \/ \E i \in InstanceIds : Lost(i)

SpecApp == Init /\ [][NextApp]_vars

\* What the event loop guarantees to a pipeline constructed by handleStart:
\* a reconnect timer fires, a promise awaited by start() settles, a connection
\* attempt ends by opening or failing, a closing socket reports its close and
\* a source reaches the end of its buffer.  Nothing obliges the remote agent
\* to send a message or to close an open connection, nor the user to stop.
InitFair ==
    InitWith([starts |-> 1, sockets |-> FairSockets, audio |-> FairAudio])

Delivery ==
    /\ WF_vars(TimerFire)
    /\ WF_vars(\E k \in StartIds : Resumed(k))
    /\ WF_vars(\E s \in SocketIds :
                   sockets[s] = "CONNECTING" /\ (SocketOpen(s) \/ SocketClosed(s, TRUE)))
    /\ WF_vars(\E s \in SocketIds : sockets[s] = "CLOSING" /\ SocketClosed(s, FALSE))
    /\ WF_vars(\E src \in playing : SourceEnded(src))
    /\ WF_vars(\E src \in endedPending : StoppedEnded(src))

SpecFair == InitFair /\ [][Next]_vars /\ Delivery

\* a remote (or network) that ends every connection it has accepted
InitClosing ==
    InitWith([starts |-> 1, sockets |-> ClosingSockets, audio |-> ClosingAudio])

SpecClosing ==
    /\ InitClosing /\ [][Next]_vars /\ Delivery
    /\ WF_vars(\E s \in SocketIds, failed \in BOOLEAN :
                   sockets[s] = "OPEN" /\ SocketClosed(s, failed))

\* ------------------------------------------------------------------ claims
StopOps == {"stop", "stop2"}
CloseOpsRunning == {"oncloseReconnect", "oncloseFatal"}
Emitted(call) ==
    \E i \in DOMAIN emitted : emitted[i][1] = call[1] /\ emitted[i][2] = call[2]
LiveSockets == {s \in SocketIds : sockets[s] \in {"CONNECTING", "OPEN"}}
EngineEmpty ==
    audioQueue = <<>> /\ pendingAudioChunks = <<>> /\ pendingSamples = 0

\* C1: right after a UserStartedSpeaking event has been handled no chunk is
\* playing, the queue and the accumulator are empty and the state is listening.
C1_InterruptSilencesAll ==
    lastOp = "UserStartedSpeaking" =>
        playing = {} /\ EngineEmpty /\ state = "listening"

\* C2: no audio received before the last interruptPlayback is playing, queued
\* or pending afterwards.
C2_InterruptedAudioGone ==
    /\ \A src \in playing : \A i \in IdsOf(src.buf) : i > interruptedUpTo
    /\ \A k \in DOMAIN audioQueue : \A i \in IdsOf(audioQueue[k]) : i > interruptedUpTo
    /\ \A i \in IdsOf(pendingAudioChunks) : i > interruptedUpTo

\* C3: while the session runs, the state is speaking exactly when a chunk is
\* playing or the queue is non-empty.
C3_SpeakingIffPlaying ==
    isRunning => (state = "speaking" <=> (playing # {} \/ audioQueue # <<>>))

\* C4 as stated: the MAX_RECONNECTS-th consecutive close of a running session
\* without a handshake stops the session with a fatal error.
C4_FatalAtNthClose ==
    (lastOp \in CloseOpsRunning /\ closesRunning = MAX_RECONNECTS) =>
        (lastOp = "oncloseFatal" /\ state = "idle" /\ ~isRunning /\ timers = 0)

\* C4 as amended: each of the first MAX_RECONNECTS consecutive closes of a
\* running session schedules a reconnect; the close after them stops the
\* session (state idle, fatal error surfaced, nothing scheduled or connected).
C4_FatalAfterBudget ==
    /\ (lastOp \in CloseOpsRunning /\ closesRunning <= MAX_RECONNECTS) =>
          (lastOp = "oncloseReconnect" /\ isRunning /\ timers > 0
           /\ reconnectAttempts = closesRunning)
    /\ (lastOp \in CloseOpsRunning /\ closesRunning > MAX_RECONNECTS) =>
          (lastOp = "oncloseFatal" /\ state = "idle" /\ ~isRunning
           /\ Emitted(<<"error", "lost">>) /\ timers = 0 /\ LiveSockets = {})

C4_Witness == lastOp = "oncloseFatal" /\ closesRunning = MAX_RECONNECTS + 1

\* C5: handling SettingsApplied leaves the reconnect counter at 0, and a
\* running session is stopped for lost connection only after more than
\* MAX_RECONNECTS closes without a handshake in between.
C5_HandshakeResetsCounter ==
    /\ lastOp = "SettingsApplied" => reconnectAttempts = 0
    /\ lastOp = "oncloseFatal" => closesRunning > MAX_RECONNECTS

\* a handshake after MAX_RECONNECTS closes of the running session
C5_Witness ==
    /\ lastOp = "SettingsApplied"
    /\ isRunning
    /\ Cardinality({s \in SocketIds : sockets[s] = "CLOSED"}) = MAX_RECONNECTS

\* C6: while the pipeline stays stopped no step creates a socket or schedules
\* a reconnect timer.
C6_NoConnectWhileStopped ==
    [][(~isRunning /\ ~isRunning') =>
          /\ \A s \in SocketIds : sockets[s] = "none" => sockets'[s] = "none"
          /\ timers' <= timers]_vars

\* a reconnect timer that was pending at stop() has fired, and the socket
\* closed by stop() has reported its close
C6_Witness ==
    /\ lastOp = "timer"
    /\ ~isRunning
    /\ \E s \in SocketIds : sockets[s] = "CLOSED"
    /\ LiveSockets = {}

\* C7: right after stop() nothing plays, the engine is empty, no microphone
\* is held, no analysis frame is pending, the interim text is empty and the
\* state is idle.
C7_StopReleasesAll ==
    lastOp \in StopOps =>
        /\ playing = {} /\ EngineEmpty
        /\ liveTracks = {}
        /\ pendingFrames = {}
        /\ interimText = <<>>
        /\ state = "idle"

\* C8: right after stop() no socket of the pipeline is connecting or open.
C8_StopLeavesNoConnection ==
    lastOp \in StopOps => LiveSockets = {}

\* C9: right after stop() the state is idle, nothing is held by the fields,
\* no error was surfaced, and a further stop() changes nothing.
C9_StopIdempotent ==
    lastOp \in StopOps =>
        /\ state = "idle" /\ ~isRunning /\ EngineEmpty
        /\ mediaStream = Null /\ audioContext = Null /\ playbackContext = Null
        /\ socket = Null /\ animationFrame = Null /\ currentSource = NoSource
        /\ \A i \in DOMAIN emitted : emitted[i][1] # "error"
        /\ ENABLED (Stop /\ UNCHANGED <<pipeVars, engVars, envVars, obsVars, emitted>>)

\* stop() called twice in a row on a session whose socket the first call closed
C9_Witness ==
    lastOp = "stop2" /\ \E s \in SocketIds : sockets[s] = "CLOSING"

\* C10: start() on a running pipeline changes no field and nothing outside.
C10_StartWhenRunningNoOp ==
    isRunning => ENABLED (Start /\ UNCHANGED <<pipeVars, engVars, envVars, obsVars>>)

\* start() called on a session that is connected
C10_Witness ==
    lastOp = "start" /\ isRunning /\ socket # Null /\ sockets[socket] = "OPEN"

\* C11: a socket exists only after a start() has acquired the microphone and
\* passed its awaits; a start() whose acquisition was rejected surfaces an
\* error, and from then on no socket exists, no reconnect is scheduled, no
\* microphone is held, and the pipeline is not running with state idle.
C11_MicBeforeTransport ==
    /\ (\E s \in SocketIds : sockets[s] # "none") => \E k \in StartIds : starts[k] = "done"
    /\ lastOp = "gumFail" => Emitted(<<"error", "mic">>)
    /\ \A k \in StartIds :
          starts[k] = "failed" =>
              /\ \A s \in SocketIds : sockets[s] = "none"
              /\ timers = 0 /\ liveTracks = {}
              /\ ~isRunning /\ state = "idle"

\* the owner calls stop() after the acquisition has failed
C11_Witness ==
    lastOp = "stop" /\ \E k \in StartIds : starts[k] = "failed"

\* the errors after which the pipeline tears itself down
FatalErrors == {"mic", "lost"}

\* C12: whenever a fatal error is surfaced, the callbacks of stop() (state
\* idle among them) have been made before it in the same handler.
C12_StopBeforeError ==
    \A i \in DOMAIN emitted :
        (emitted[i][1] = "error" /\ emitted[i][2] \in FatalErrors) =>
            \E j \in 1..(i - 1) : emitted[j][1] = "state" /\ emitted[j][2] = "idle"

\* C13: the instance holds at most one microphone stream and has at most one
\* connecting or open socket.
C13_OneMicOneConnection ==
    Cardinality(liveTracks) <= 1 /\ Cardinality(LiveSockets) <= 1

\* C14: after every ingest the accumulator holds fewer samples than the
\* threshold: an ingest that reaches the threshold has flushed it.
C14_IngestFlushesAtThreshold ==
    lastOp = "audio" => pendingSamples < BUFFER_SIZE

\* C15: at most one chunk is playing, and the chunks waiting in the queue
\* were all received after the chunks that are playing (FIFO, none twice).
C15_OneAtATimeInOrder ==
    /\ Cardinality(playing) <= 1
    /\ \A src \in playing : \A k \in DOMAIN audioQueue :
          \A i \in IdsOf(src.buf) : \A j \in IdsOf(audioQueue[k]) : i < j

EndedOps == {"ended", "endedStopped"}

\* C16: when a chunk's completion finds the queue empty while the session
\* runs, the state becomes listening; and while the session keeps running a
\* state that is not idle never becomes idle.
C16_ExhaustedMeansListening ==
    [][/\ (lastOp' \in EndedOps /\ isRunning /\ audioQueue = <<>>) => state' = "listening"
       /\ (isRunning' /\ state # "idle") => state' # "idle"]_vars

\* the only playing chunk of a running session has finished with nothing queued
C16_Witness ==
    lastOp = "ended" /\ isRunning /\ playing = {} /\ ~isPlaying /\ state = "listening"

\* C17: SettingsApplied sets listening; an AgentThinking that follows it
\* takes listening to thinking; an AgentStartedSpeaking that follows that
\* takes thinking to speaking; and a completion that finds the queue empty
\* takes the running session from speaking to listening.
C17_Scenario ==
    [][/\ lastOp' = "SettingsApplied" => state' = "listening"
       /\ (lastOp = "SettingsApplied" /\ lastOp' = "AgentThinking") =>
              (state = "listening" /\ state' = "thinking")
       /\ (lastOp = "AgentThinking" /\ lastOp' = "AgentStartedSpeaking") =>
              (state = "thinking" /\ state' = "speaking")
       /\ (state = "speaking" /\ isRunning /\ lastOp' \in EndedOps /\ audioQueue = <<>>) =>
              state' = "listening"]_vars

\* without any interrupt, audio received by the running session has played
\* to its end and left the engine idle
C17_Witness ==
    /\ lastOp = "ended" /\ isRunning /\ state = "listening"
    /\ interruptedUpTo = 0 /\ nextAudio > 1 /\ reconnectAttempts = 0
    /\ playing = {} /\ EngineEmpty

\* C18: the state becomes thinking only by AgentThinking received in
\* listening, becomes speaking only by AgentStartedSpeaking received in
\* thinking, and a chunk completion changes the state only from speaking.
C18_FromColumn ==
    [][/\ (state' = "thinking" /\ state # "thinking") =>
              (lastOp' = "AgentThinking" /\ state = "listening")
       /\ (state' = "speaking" /\ state # "speaking") =>
              (lastOp' = "AgentStartedSpeaking" /\ state = "thinking")
       /\ (lastOp' \in EndedOps /\ state' # state) => state = "speaking"]_vars

\* the text of a transcript message: its first non-empty text field
TextOf(msg) == IF msg.content # <<>> THEN msg.content ELSE msg.text

\* C19: handling a ConversationText message changes neither the state nor
\* any field of the pipeline or of the playback engine; if its text is
\* non-empty after trimming, the interim text is cleared and exactly one
\* entry, carrying the trimmed text, is appended at the end of the
\* transcript; otherwise no callback is made.
C19_FinalTranscriptFrame ==
    [][lastOp' = "ConversationText" =>
          /\ UNCHANGED <<state, pipeVars, engVars>>
          /\ IF trim(TextOf(lastMsg')) # <<>>
             THEN /\ interimText' = <<>>
                  /\ emitted'[1][1] = "interim" /\ emitted'[1][2] = <<>>
                  /\ Len(emitted') = 2 /\ emitted'[2][1] = "final"
                  /\ Len(transcript') = Len(transcript) + 1
                  /\ SubSeq(transcript', 1, Len(transcript)) = transcript
                  /\ transcript'[Len(transcript')].text = trim(TextOf(lastMsg'))
                  /\ transcript'[Len(transcript')].text # <<>>
                  /\ transcript'[Len(transcript')].role = lastMsg'.role
             ELSE emitted' = <<>> /\ UNCHANGED <<interimText, transcript>>]_vars

\* two entries of different roles were emitted, the second from a text
\* with spaces around it
C19_Witness ==
    /\ lastOp = "ConversationText"
    /\ Len(transcript) = 2 /\ transcript[1].role # transcript[2].role
    /\ lastMsg.content = <<" ", "a", " ">>

\* C20: after an interim transcript message with a non-empty text has been
\* handled, the interim text is that text.
C20_InterimReplacesText ==
    (lastOp = "TranscriptInterim" /\ trim(TextOf(lastMsg)) # <<>>) =>
        interimText = trim(TextOf(lastMsg))

\* C21: handling an Error event of the remote makes exactly one error
\* callback and changes nothing else: state, engine, reconnect counter,
\* sockets and isRunning stay as they are.
C21_RemoteErrorOnlySurfaced ==
    [][lastOp' = "Error" =>
          /\ emitted' = << <<"error", "agent">> >>
          /\ UNCHANGED <<pipeVars, engVars, envVars, obsVars>>]_vars

\* an Error event received while a chunk of the running session plays
C21_Witness ==
    /\ lastOp = "Error" /\ isRunning /\ state = "speaking"
    /\ playing # {} /\ Emitted(<<"error", "agent">>)

\* C22: a text message that cannot be parsed or has an unknown type makes no
\* callback and changes nothing, and afterwards the open sockets still have
\* their messages handled.
C22_MalformedDropped ==
    /\ [][lastOp' = "dropped" =>
             /\ emitted' = <<>>
             /\ UNCHANGED <<pipeVars, engVars, envVars, obsVars>>]_vars
    /\ [](lastOp = "dropped" =>
             \E s \in SocketIds : sockets[s] = "OPEN" /\ ENABLED OnAgentThinking(s))

\* a message dropped while the running session is thinking and holds
\* audio in its accumulator
C22_Witness ==
    /\ lastOp = "dropped" /\ isRunning /\ state = "thinking"
    /\ pendingSamples > 0

\* round(a / b), halves rounded up
RoundDiv(a, b) == (2 * a + b) \div (2 * b)

\* C23: every sample of a frame that was sent is the rounded value of the
\* clamped sample times 32768 (negative) or 32767 (otherwise), within int16.
C23_EncodingRounds ==
    (lastOp = "audioprocess" /\ lastSent # <<>>) =>
        \A i \in DOMAIN lastBlock :
            /\ lastSent[1].data[i] = RoundDiv(scale(clamp(lastBlock[i])), SampleUnit)
            /\ lastSent[1].data[i] \in (0 - 32768)..32767

\* C24: while the pipeline stays stopped, no step takes the state away from
\* idle, acquires a microphone stream or an audio context, creates a socket,
\* or adds to the playback queue, the accumulator or the playing sources.
C24_NoEffectAfterTeardown ==
    [][(~isRunning /\ ~isRunning') =>
          /\ state = "idle" => state' = "idle"
          /\ liveTracks' \subseteq liveTracks
          /\ openContexts' \subseteq openContexts
          /\ \A s \in SocketIds : sockets[s] = "none" => sockets'[s] = "none"
          /\ Len(audioQueue') <= Len(audioQueue)
          /\ pendingSamples' <= pendingSamples
          /\ playing' \subseteq playing]_vars

\* C25: audio received before the last interrupt is neither pending nor
\* queued, and when an interrupt or an AgentAudioDone flush has been handled
\* no audio received before it is still waiting to be ingested.
C25_ArrivalOrder ==
    /\ \A i \in IdsOf(pendingAudioChunks) : i > interruptedUpTo
    /\ \A k \in DOMAIN audioQueue : \A i \in IdsOf(audioQueue[k]) : i > interruptedUpTo
    /\ lastOp \in {"UserStartedSpeaking", "AgentAudioDone"} => decoding = {}

\* C26: while the session runs, whenever the engine is marked playing or
\* holds queued chunks, a chunk is actually playing, so playback cannot be
\* stuck behind a chunk that never started.
C26_NoStall ==
    (isRunning /\ (isPlaying \/ audioQueue # <<>>)) => playing # {}

\* C27: an AgentAudioDone handled while the session runs empties a non-empty
\* accumulator into exactly one chunk, appended to the queue (and started at
\* once when nothing is marked playing), whatever its sample count; with an
\* empty accumulator it makes no callback and changes nothing.
C27_AudioDoneFlushes ==
    [][(lastOp' = "AgentAudioDone" /\ isRunning) =>
          IF pendingAudioChunks # <<>>
          THEN /\ pendingAudioChunks' = <<>> /\ pendingSamples' = 0
               /\ LET q == Append(audioQueue, pendingAudioChunks)
                  IN \/ audioQueue' = q /\ UNCHANGED <<playing, currentSource>>
                     \/ /\ audioQueue' = Tail(q)
                        /\ currentSource'.buf = Head(q)
                        /\ playing' = playing \cup {currentSource'}
          ELSE /\ emitted' = <<>>
               /\ UNCHANGED <<pipeVars, engVars, envVars, obsVars>>]_vars
\* C28: whenever the playback queue holds a chunk between two events, some
\* chunk is playing: a flush that finds nothing playing starts the queue head,
\* and the end of a chunk starts the next one.
C28_QueueImpliesPlaying ==
    audioQueue # <<>> => \E src \in playing : src = currentSource
\* C29: every connection that opens is sent exactly one configuration message
\* by its onopen handler, on that connection, before any audio frame goes out
\* on it (audio frames go only to an open current socket, so none can precede
\* the step that opens it).
C29_OneConfigPerOpen ==
    [][lastOp' = "onopen" =>
          \E s \in SocketIds :
              /\ sockets[s] = "CONNECTING" /\ sockets'[s] = "OPEN"
              /\ lastSent' = << [to |-> s, kind |-> "Settings", data |-> <<>>] >>]_vars
\* C30: a capture block produces an outbound audio frame exactly when the
\* pipeline is running and its current socket is open, and the frame goes to
\* that socket; otherwise nothing is sent; in both cases the handler makes no
\* callback and changes no state of the pipeline.
C30_FrameOnlyWhenOpen ==
    [][lastOp' = "audioprocess" =>
          /\ emitted' = <<>>
          /\ UNCHANGED <<pipeVars, engVars, envVars, obsVars>>
          /\ IF isRunning /\ socket # Null /\ sockets[socket] = "OPEN"
             THEN Len(lastSent') = 1 /\ lastSent'[1].to = socket
                  /\ lastSent'[1].kind = "audio"
             ELSE lastSent' = <<>>]_vars

\* a capture block dropped because the current socket is still connecting
C30_Witness ==
    /\ lastOp = "audioprocess" /\ lastSent = <<>> /\ lastBlock # <<>>
    /\ isRunning /\ socket # Null /\ sockets[socket] = "CONNECTING"
\* C31: a running session whose current connection has opened eventually
\* gets its settings acknowledgement, or treats the connection as closed
\* (reconnect path or fatal stop), or is stopped.
C31_HandshakeTimesOut ==
    (isRunning /\ lastOp = "onopen" /\ socket # Null /\ sockets[socket] = "OPEN")
        ~> (\/ lastOp \in {"SettingsApplied", "oncloseReconnect", "oncloseFatal"}
            \/ ~isRunning)
\* C32: every chunk that is playing is the one the engine tracks: it is
\* currentSource and isPlaying is true (so an interrupt stops it, and no late
\* ended event of an interrupted chunk has untracked it).
C32_PlayingIsTracked ==
    \A src \in playing : src = currentSource /\ isPlaying
\* C33: the close event handled while the pipeline is stopped surfaces no
\* "Connection lost" error and runs no teardown (no idle report), whatever the
\* reconnect counter is.
CloseOps == {"oncloseReconnect", "oncloseFatal", "oncloseStopped", "oncloseIdle"}

C33_QuietCloseAfterStop ==
    [][(~isRunning /\ lastOp' \in CloseOps) =>
          \A i \in DOMAIN emitted' :
              /\ ~(emitted'[i][1] = "error" /\ emitted'[i][2] = "lost")
              /\ emitted'[i][1] # "state"]_vars
\* C34: every session begins with the full reconnect budget: when start()
\* takes the pipeline from stopped to running the reconnect counter is 0.
C34_FreshBudget ==
    [][(~isRunning /\ isRunning') => reconnectAttempts' = 0]_vars
\* C35: a close handled while running with reconnect budget left adds one to
\* the reconnect counter and schedules one reconnect; it leaves every other
\* field of the pipeline, the playback engine and what plays, and the
\* observer's state, interim text and transcript unchanged, reports no state
\* and no "Connection lost" error.
C35_ReconnectCloseFrame ==
    [][lastOp' = "oncloseReconnect" =>
          /\ canReconnect
          /\ reconnectAttempts' = reconnectAttempts + 1
          /\ timers' = timers + 1
          /\ UNCHANGED <<isRunning, mediaStream, audioContext, playbackContext, analyser,
                         scriptProcessor, animationFrame, socket, engVars, obsVars>>
          /\ \A i \in DOMAIN emitted' :
                 emitted'[i][1] = "error" /\ emitted'[i][2] = "conn"]_vars

\* a reconnect scheduled while a chunk plays, audio is pending and the state
\* is speaking
C35_Witness ==
    /\ lastOp = "oncloseReconnect"
    /\ playing # {} /\ pendingSamples > 0 /\ state = "speaking"
    /\ reconnectAttempts = 1 /\ timers = 1
\* C36: every pipeline of the page that is acquiring the microphone,
\* connecting or running is the one pipelineRef holds, so at most one is live
\* and the stop control reaches it.
C36_OneLiveInstance ==
    \A i \in Live : pipelineRef = i
\* C37: when ended events are delivered, a running session with a chunk in
\* its queue reaches a moment at which an ended event leaves the queue empty,
\* nothing playing and the state listening, unless an interrupt or a stop
\* comes first.
C37_QueueDrains ==
    (isRunning /\ audioQueue # <<>>)
        ~> (\/ /\ lastOp \in {"ended", "endedStopped"}
               /\ audioQueue = <<>> /\ playing = {} /\ state = "listening"
            \/ lastOp = "UserStartedSpeaking"
            \/ ~isRunning)

\* a chunk waits in the queue behind the chunk that plays
C37_Witness ==
    /\ lastOp = "AgentAudioDone" /\ isRunning
    /\ Len(audioQueue) = 1 /\ playing # {} /\ interruptedUpTo = 0
\* C38: the reconnect counter is always within 0..MAX_RECONNECTS, and when
\* every connection ends, a running session that has scheduled a reconnect
\* gets a settings acknowledgement, or is stopped by its owner, or reaches the
\* fatal stop (stopped, state idle, "Connection lost" surfaced) after at most
\* MAX_RECONNECTS reconnects (or the run has no socket left to create).
C38_ReconnectTerminates ==
    /\ [](reconnectAttempts \in 0..MAX_RECONNECTS)
    /\ (isRunning /\ lastOp = "oncloseReconnect")
          ~> (\/ /\ lastOp = "oncloseFatal" /\ ~isRunning /\ state = "idle"
                 /\ Emitted(<<"error", "lost">>)
                 /\ closesRunning = MAX_RECONNECTS + 1
              \/ lastOp = "SettingsApplied"
              \/ lastOp \in StopOps
              \/ FreeSockets = {} /\ timers > 0)

\* the fatal stop of a session whose counter has reached the maximum
C38_Witness ==
    /\ lastOp = "oncloseFatal" /\ reconnectAttempts = MAX_RECONNECTS
    /\ ~isRunning /\ state = "idle" /\ Emitted(<<"error", "lost">>) /\ timers = 0
\* C39: the sample count of the accumulator is the sum of the lengths of its
\* pending chunks, it is 0 exactly when there is no pending chunk, and no
\* zero-length message is among them: an inbound audio message either leaves
\* the accumulator as it was, or is appended with its length, or triggers a
\* flush that empties it.
RECURSIVE SumLen(_)
SumLen(chunks) == IF chunks = <<>> THEN 0 ELSE Head(chunks).len + SumLen(Tail(chunks))

C39_CountMatchesChunks ==
    /\ [](/\ pendingSamples = SumLen(pendingAudioChunks)
          /\ (pendingSamples = 0 <=> pendingAudioChunks = <<>>)
          /\ \A i \in DOMAIN pendingAudioChunks : pendingAudioChunks[i].len > 0)
    /\ [][lastOp' = "audio" =>
             \/ UNCHANGED <<pendingAudioChunks, pendingSamples>>
             \/ /\ Len(pendingAudioChunks') = Len(pendingAudioChunks) + 1
                /\ pendingAudioChunks'[Len(pendingAudioChunks')].id = nextAudio
                /\ pendingSamples' > pendingSamples
             \/ pendingAudioChunks' = <<>> /\ pendingSamples' = 0]_vars

\* the second audio message was empty and left the pending first one alone
C39_Witness ==
    /\ lastOp = "audio" /\ nextAudio = 3
    /\ Len(pendingAudioChunks) = 1 /\ pendingAudioChunks[1].id = 1
    /\ pendingSamples = pendingAudioChunks[1].len
====
